---------------------------- MODULE Spec2Model ----------------------------
(***************************************************************************)
(* Model of app.py (BudgetBridge loan calculator): the script's run from   *)
(* the sidebar inputs through validation, rate conversion, the payment     *)
(* formula, the amortization loop, the data frame, the display rounding,   *)
(* the outputs and the sensitivity comparison.                             *)
(*                                                                         *)
(* Python floats are modelled as signed decimal fixed-point numbers with   *)
(* FracLimbs limbs of Base after the point; every multiplication and       *)
(* division rounds to the nearest representable value, additions and       *)
(* subtractions are exact.  A number is [neg |-> BOOLEAN, mag |-> limbs],  *)
(* limbs least significant first, no leading zero limb, zero never neg.    *)
(***************************************************************************)
EXTENDS Integers, Sequences, FiniteSets, TLC

\* ------------------------------------------------------------ arithmetic
\* Add, Mul, Div, Cmp and the two series bind their operands to values
\* ({e : a \in {x}}) before working on them, as Python evaluates the operands
\* of an expression before the operation.

Base == 10000

FracLimbs == 3

Limb(m, i) == IF i >= 1 /\ i <= Len(m) THEN m[i] ELSE 0

RECURSIVE MNorm(_)
MNorm(m) ==
    IF m = <<>> THEN <<>>
    ELSE IF m[Len(m)] = 0 THEN MNorm(SubSeq(m, 1, Len(m) - 1))
    ELSE m

RECURSIVE MCmpFrom(_, _, _)
MCmpFrom(a, b, i) ==
    IF i = 0 THEN 0
    ELSE IF a[i] < b[i] THEN -1
    ELSE IF a[i] > b[i] THEN 1
    ELSE MCmpFrom(a, b, i - 1)

\* -1, 0, 1 as magnitude a is below, equal to, above magnitude b
MCmp(a, b) ==
    IF Len(a) < Len(b) THEN -1
    ELSE IF Len(a) > Len(b) THEN 1
    ELSE MCmpFrom(a, b, Len(a))

RECURSIVE MAddFrom(_, _, _, _)
MAddFrom(a, b, i, c) ==
    IF i > Len(a) /\ i > Len(b)
    THEN (IF c = 0 THEN <<>> ELSE <<c>>)
    ELSE LET s == Limb(a, i) + Limb(b, i) + c
         IN  <<s % Base>> \o MAddFrom(a, b, i + 1, s \div Base)

MAdd(a, b) == MAddFrom(a, b, 1, 0)

RECURSIVE MSubFrom(_, _, _, _)
MSubFrom(a, b, i, c) ==
    IF i > Len(a) THEN <<>>
    ELSE LET s == a[i] - Limb(b, i) - c
         IN  IF s < 0
             THEN <<s + Base>> \o MSubFrom(a, b, i + 1, 1)
             ELSE <<s>> \o MSubFrom(a, b, i + 1, 0)

\* a - b for magnitudes with a >= b
MSub(a, b) == MNorm(MSubFrom(a, b, 1, 0))

RECURSIVE ConvSum(_, _, _, _)
ConvSum(a, b, k, i) ==
    IF i > Len(a) \/ i > k THEN 0
    ELSE a[i] * Limb(b, k + 1 - i) + ConvSum(a, b, k, i + 1)

RECURSIVE MMulFrom(_, _, _, _)
MMulFrom(a, b, k, c) ==
    IF k > Len(a) + Len(b)
    THEN (IF c = 0 THEN <<>> ELSE <<c>>)
    ELSE LET s == ConvSum(a, b, k, 1) + c
         IN  <<s % Base>> \o MMulFrom(a, b, k + 1, s \div Base)

MMul(a, b) ==
    IF a = <<>> \/ b = <<>> THEN <<>> ELSE MNorm(MMulFrom(a, b, 1, 0))

\* a * d for one limb d
MMulSmall(a, d) ==
    IF d = 0 THEN <<>> ELSE MAddFrom([i \in 1..Len(a) |-> a[i] * d], <<>>, 1, 0)

RECURSIVE QDigit(_, _, _, _)
\* the largest d in lo..hi with b * d <= rem
QDigit(rem, b, lo, hi) ==
    IF lo = hi THEN lo
    ELSE LET mid == (lo + hi + 1) \div 2
         IN  IF MCmp(MMulSmall(b, mid), rem) <= 0
             THEN QDigit(rem, b, mid, hi)
             ELSE QDigit(rem, b, lo, mid - 1)

RECURSIVE MDivFrom(_, _, _, _, _)
\* long division, the limbs of a from the top
MDivFrom(a, b, i, rem, q) ==
    IF i = 0 THEN MNorm(q)
    ELSE LET r1 == MNorm(<<a[i]>> \o rem)
             d  == QDigit(r1, b, 0, Base - 1)
         IN  MDivFrom(a, b, i - 1, MSub(r1, MMulSmall(b, d)), <<d>> \o q)

RECURSIVE MDivSmallFrom(_, _, _, _, _)
\* short division by one limb d
MDivSmallFrom(a, d, i, rem, q) ==
    IF i = 0 THEN MNorm(q)
    ELSE LET t == rem * Base + a[i]
         IN  MDivSmallFrom(a, d, i - 1, t % d, <<t \div d>> \o q)

RECURSIVE LowZeros(_, _)
\* how many of the lowest limbs of a nonzero magnitude are zero
LowZeros(b, i) == IF b[i] # 0 THEN i - 1 ELSE LowZeros(b, i + 1)

\* floor(a / b) for magnitudes, b nonzero; limbs that are zero at the low
\* end of b are dropped from both first
MDiv(a, b) ==
    LET z  == LowZeros(b, 1)
        a1 == IF Len(a) > z THEN SubSeq(a, z + 1, Len(a)) ELSE <<>>
        b1 == SubSeq(b, z + 1, Len(b))
    IN  IF Len(b1) = 1 THEN MDivSmallFrom(a1, b1[1], Len(a1), 0, <<>>)
        ELSE MDivFrom(a1, b1, Len(a1), <<>>, <<>>)

MShiftLeft(m, k) == IF m = <<>> THEN <<>> ELSE [i \in 1..k |-> 0] \o m

\* m / Base^k rounded to the nearest integer
MRoundShift(m, k) ==
    LET kept == IF Len(m) > k THEN SubSeq(m, k + 1, Len(m)) ELSE <<>>
    IN  IF k >= 1 /\ Limb(m, k) >= Base \div 2 THEN MAdd(kept, <<1>>) ELSE kept

Mk(n, m) == [neg |-> (n /\ m # <<>>), mag |-> m]

Zero == Mk(FALSE, <<>>)

\* a value no computation produces: the variable has not been assigned yet
Unset == [neg |-> TRUE, mag |-> <<>>]

RECURSIVE NatLimbs(_)
NatLimbs(n) == IF n = 0 THEN <<>> ELSE <<n % Base>> \o NatLimbs(n \div Base)

\* float(n) of a Python int
FromInt(n) ==
    IF n < 0 THEN Mk(TRUE, MShiftLeft(NatLimbs(-n), FracLimbs))
    ELSE Mk(FALSE, MShiftLeft(NatLimbs(n), FracLimbs))

One == FromInt(1)

Neg(x) == Mk(~x.neg, x.mag)

Add(x, y) ==
    CHOOSE r \in
        {IF a.neg = b.neg THEN Mk(a.neg, MAdd(a.mag, b.mag))
         ELSE IF MCmp(a.mag, b.mag) >= 0 THEN Mk(a.neg, MSub(a.mag, b.mag))
         ELSE Mk(b.neg, MSub(b.mag, a.mag)) : a \in {x}, b \in {y}} : TRUE

Sub(x, y) == Add(x, Neg(y))

Mul(x, y) ==
    CHOOSE r \in
        {Mk(a.neg # b.neg, MRoundShift(MMul(a.mag, b.mag), FracLimbs)) :
            a \in {x}, b \in {y}} : TRUE

Div(x, y) ==
    CHOOSE r \in
        {Mk(a.neg # b.neg,
            MRoundShift(MDiv(MShiftLeft(a.mag, FracLimbs + 1), b.mag), 1)) :
            a \in {x}, b \in {y}} : TRUE

\* -1, 0, 1 as x < y, x = y, x > y
Cmp(x, y) ==
    CHOOSE r \in
        {IF a.neg /\ ~b.neg THEN -1
         ELSE IF ~a.neg /\ b.neg THEN 1
         ELSE IF a.neg THEN MCmp(b.mag, a.mag)
         ELSE MCmp(a.mag, b.mag) : a \in {x}, b \in {y}} : TRUE

Lt(x, y) == Cmp(x, y) < 0

Le(x, y) == Cmp(x, y) <= 0

Min(x, y) == IF Lt(y, x) THEN y ELSE x

Max(x, y) == IF Lt(x, y) THEN y ELSE x

\* the decimal literal n/d
Dec(n, d) == Div(FromInt(n), FromInt(d))

RECURSIVE PowInt(_, _)
\* x ** n for a Python int n >= 0
PowInt(x, n) == IF n = 0 THEN One ELSE Mul(x, PowInt(x, n - 1))

SeriesTerms == 40

RECURSIVE AtanhSeries(_, _, _, _)
AtanhSeries(z2, term, k, acc) ==
    IF term = Zero \/ k > 2 * SeriesTerms THEN acc
    ELSE CHOOSE r \in
             {AtanhSeries(z2, t, k + 2, a) :
                 t \in {Mul(term, z2)},
                 a \in {Add(acc, Div(term, FromInt(k)))}} : TRUE

\* natural logarithm of x > 0: 2 * atanh((x - 1) / (x + 1))
Ln(x) ==
    LET z == Div(Sub(x, One), Add(x, One))
    IN  CHOOSE r \in {Mul(FromInt(2), AtanhSeries(z2, z, 1, Zero)) :
                          z2 \in {Mul(z, z)}} : TRUE

RECURSIVE ExpSeries(_, _, _, _)
ExpSeries(y, term, k, acc) ==
    IF term = Zero \/ k > SeriesTerms THEN acc
    ELSE CHOOSE r \in
             {ExpSeries(y, t, k + 1, a) :
                 t \in {Div(Mul(term, y), FromInt(k))},
                 a \in {Add(acc, term)}} : TRUE

Exp(y) == CHOOSE r \in {ExpSeries(v, One, 1, Zero) : v \in {y}} : TRUE

\* x ** e for floats x > 0 and e
Pow(x, e) == Exp(Mul(e, Ln(x)))

\* ------------------------------------------------------------ the script

\* line 56: effective_principal = max(0.0, principal - deposit)
effectivePrincipal(p, d) == Max(Zero, Sub(p, d))

\* a faulty variant: the guard written with < for <=
InputInvalidStrict(eP) == Lt(eP, Zero)

\* line 94: if effective_principal <= 0
InputInvalid(eP) == Le(eP, Zero)

MonthsPerYear == 12

\* line 102: total_months = int(duration_years * 12)
totalMonths(years) == years * MonthsPerYear

\* line 105: annual_rate = float(interest_rate) / 100.0
annualRate(rate) == Div(rate, FromInt(100))

\* line 109: ** associates to the right, so the exponent of the Quarterly
\* branch is (1/4) ** (1/3)
QuarterlyExponent == Pow(Div(One, FromInt(4)), Div(One, FromInt(3)))

\* lines 106-111
monthlyRate(rate, comp) ==
    IF comp = "Monthly"
    THEN Sub(Pow(Add(One, annualRate(rate)), Div(One, FromInt(12))), One)
    ELSE IF comp = "Quarterly"
    THEN Sub(Pow(Add(One, annualRate(rate)), QuarterlyExponent), One)
    ELSE Sub(Pow(Add(One, annualRate(rate)), Div(One, FromInt(12))), One)

\* a faulty variant: the straight-line payment at every rate
monthly_paymentStraight(P, r, n) ==
    IF n = 0 THEN Zero ELSE Div(P, FromInt(n))

\* lines 114-119
monthly_payment(P, r, n) ==
    IF n = 0 THEN Zero
    ELSE IF r = Zero THEN Div(P, FromInt(n))
    ELSE Div(Mul(P, Mul(r, PowInt(Add(One, r), n))),
             Sub(PowInt(Add(One, r), n), One))

\* line 123
withExtra(base, extra) == Add(base, extra)

\* lines 131, 133, 136: the period's interest
interestOf(bal, r) == IF r = Zero THEN Zero ELSE Mul(bal, r)

\* a faulty variant: the interest is not taken out of the payment
principalPaidNoInterest(bal, Pe, r) == Min(bal, Pe)

\* a faulty variant: the principal part is not capped at the balance
principalPaidUncapped(bal, Pe, r) ==
    IF r = Zero THEN Pe ELSE Sub(Pe, Mul(bal, r))

\* lines 132-135: the period's principal part
principalPaid(bal, Pe, r) ==
    IF r = Zero THEN Min(bal, Pe) ELSE Min(bal, Sub(Pe, Mul(bal, r)))

\* a faulty variant: every row records the full payment
rowPaymentFull(newBal, Pe, pp, int) == Pe

\* line 142: "Payment", from the balance after the period
rowPayment(newBal, Pe, pp, int) ==
    IF Lt(Zero, newBal) THEN Pe ELSE Add(pp, int)

\* line 145: "Balance"
rowBalance(newBal) == Max(Zero, newBal)

Epsilon == Dec(1, 10000)

\* a faulty variant: the loop never breaks
paidOffNever(newBal) == FALSE

\* line 147: if balance <= 0.0001: break
paidOff(newBal) == Le(newBal, Epsilon)

RECURSIVE CumSum(_, _, _)
\* Series.cumsum() of column col over the first i rows
CumSum(rows, col, i) ==
    IF i = 0 THEN Zero ELSE Add(CumSum(rows, col, i - 1), rows[i][col])

\* a faulty variant: the cumulative principal column sums the payments
amortFrameSumsPayment(rows) ==
    [i \in 1..Len(rows) |->
        [Month |-> rows[i].Month, Payment |-> rows[i].Payment,
         Principal |-> rows[i].Principal, Interest |-> rows[i].Interest,
         Balance |-> rows[i].Balance,
         CumInterest |-> CumSum(rows, "Interest", i),
         CumPrincipal |-> CumSum(rows, "Payment", i)]]

\* lines 150-152: the frame with its two cumulative columns
amortFrame(rows) ==
    [i \in 1..Len(rows) |->
        [Month |-> rows[i].Month, Payment |-> rows[i].Payment,
         Principal |-> rows[i].Principal, Interest |-> rows[i].Interest,
         Balance |-> rows[i].Balance,
         CumInterest |-> CumSum(rows, "Interest", i),
         CumPrincipal |-> CumSum(rows, "Principal", i)]]

\* round(x, 2): the nearest multiple of 0.01, ties to the even multiple
Round2(x) ==
    LET unit == Dec(1, 100).mag
        q    == MDiv(x.mag, unit)
        rem  == MSub(x.mag, MMul(q, unit))
        twice == MAdd(rem, rem)
        up   == \/ MCmp(twice, unit) > 0
                \/ MCmp(twice, unit) = 0 /\ Limb(q, 1) % 2 = 1
    IN  Mk(x.neg, MMul(IF up THEN MAdd(q, <<1>>) ELSE q, unit))

\* line 161: DataFrame.round(2) rounds the float columns, not the int Month
roundFrame(df) ==
    [i \in 1..Len(df) |->
        [Month |-> df[i].Month, Payment |-> Round2(df[i].Payment),
         Principal |-> Round2(df[i].Principal),
         Interest |-> Round2(df[i].Interest),
         Balance |-> Round2(df[i].Balance),
         CumInterest |-> Round2(df[i].CumInterest),
         CumPrincipal |-> Round2(df[i].CumPrincipal)]]

\* lines 160-163
displayFrame(df, rnd) == IF rnd THEN roundFrame(df) ELSE df

\* line 179: to_csv(index=False): one line per row, the columns in frame
\* order, every number written in full
toCsv(df) ==
    [i \in 1..Len(df) |->
        <<df[i].Month, df[i].Payment, df[i].Principal, df[i].Interest,
          df[i].Balance, df[i].CumInterest, df[i].CumPrincipal>>]

\* a faulty variant: the CSV is made from the displayed frame
csvSourceShown(df, shown) == shown

\* line 178: the frame the CSV is made from
csvSource(df, shown) == df

\* line 223
sensitivityRates(rate) ==
    <<Max(Zero, Sub(rate, FromInt(2))), rate, Add(rate, FromInt(2))>>

\* line 227: r_month = (1 + r/100) ** (1/12) - 1
sensitivityRate(r, comp) ==
    Sub(Pow(Add(One, Div(r, FromInt(100))), Div(One, FromInt(12))), One)

\* ------------------------------------------------------------ state

VARIABLES
    principal, deposit, interest_rate, compounding, duration_years,
    extra_payment, show_amort, show_graphs, download_csv, rounding,
    effective_principal, error_shown, total_months, monthly_rate,
    base_monthly_payment, monthly_payment_with_extra,
    m, balance, total_interest_paid, total_principal_paid, schedule_rows,
    amort_df, display_df, metrics, csv, table, charts, quotes, pc

inputs == <<principal, deposit, interest_rate, compounding, duration_years,
            extra_payment, show_amort, show_graphs, download_csv, rounding,
            effective_principal>>

terms == <<total_months, monthly_rate, base_monthly_payment,
           monthly_payment_with_extra>>

loopState == <<m, balance, total_interest_paid, total_principal_paid,
               schedule_rows>>

outputs == <<metrics, csv, table, charts, quotes>>

vars == <<inputs, terms, loopState, amort_df, display_df, outputs,
          error_shown, pc>>

\* ------------------------------------------------------------ bounds

MaxYears == 1

MaxPeriods == 3

Principals == {FromInt(1200), FromInt(100)}

Deposits == {Zero, FromInt(100), FromInt(250)}

Rates == {Zero, Dec(75, 10)}

Compoundings == {"Monthly", "Quarterly", "Annually"}

Extras == {Zero, FromInt(50)}

\* <<show_amort, show_graphs, download_csv, rounding>>: the defaults, and
\* each checkbox cleared in some run
Options ==
    {<<TRUE, TRUE, TRUE, TRUE>>, <<TRUE, TRUE, TRUE, FALSE>>,
     <<FALSE, TRUE, FALSE, TRUE>>, <<TRUE, FALSE, TRUE, FALSE>>}

\* ------------------------------------------------------------ the run

\* lines 46-77: the sidebar widgets have returned their values
Init ==
    /\ principal \in Principals
    /\ deposit \in Deposits
    /\ interest_rate \in Rates
    /\ compounding \in Compoundings
    /\ duration_years \in 1..MaxYears
    /\ extra_payment \in Extras
    /\ \E o \in Options :
           /\ show_amort = o[1]
           /\ show_graphs = o[2]
           /\ download_csv = o[3]
           /\ rounding = o[4]
    /\ effective_principal = effectivePrincipal(principal, deposit)
    /\ error_shown = FALSE
    /\ total_months = 0
    /\ monthly_rate = Unset
    /\ base_monthly_payment = Unset
    /\ monthly_payment_with_extra = Unset
    /\ m = 0
    /\ balance = Unset
    /\ total_interest_paid = Unset
    /\ total_principal_paid = Unset
    /\ schedule_rows = <<>>
    /\ amort_df = <<>>
    /\ display_df = <<>>
    /\ metrics = <<>>
    /\ csv = <<>>
    /\ table = <<>>
    /\ charts = <<>>
    /\ quotes = <<>>
    /\ pc = "validate"

\* lines 94-96: st.error and st.stop, or on to the calculations
Validate ==
    /\ pc = "validate"
    /\ IF InputInvalid(effective_principal)
       THEN error_shown' = TRUE /\ pc' = "stopped"
       ELSE error_shown' = error_shown /\ pc' = "convert"
    /\ UNCHANGED <<inputs, terms, loopState, amort_df, display_df, outputs>>

\* lines 100-111
Convert ==
    /\ pc = "convert"
    /\ total_months' = totalMonths(duration_years)
    /\ monthly_rate' = monthlyRate(interest_rate, compounding)
    /\ pc' = "payment"
    /\ UNCHANGED <<inputs, base_monthly_payment, monthly_payment_with_extra,
                   loopState, amort_df, display_df, outputs, error_shown>>

\* lines 121-129
Payment ==
    /\ pc = "payment"
    /\ base_monthly_payment' =
           monthly_payment(effective_principal, monthly_rate, total_months)
    /\ monthly_payment_with_extra' =
           withExtra(base_monthly_payment', extra_payment)
    /\ schedule_rows' = <<>>
    /\ balance' = effective_principal
    /\ total_interest_paid' = Zero
    /\ total_principal_paid' = Zero
    /\ m' = 1
    /\ pc' = "loop"
    /\ UNCHANGED <<inputs, total_months, monthly_rate, amort_df, display_df,
                   outputs, error_shown>>

\* lines 130-148: one pass of the for loop over range(1, total_months + 1)
LoopStep ==
    /\ pc = "loop"
    /\ LET interest == interestOf(balance, monthly_rate)
           principal_paid ==
               principalPaid(balance, monthly_payment_with_extra, monthly_rate)
           newBal == Sub(balance, principal_paid)
       IN  /\ balance' = newBal
           /\ total_interest_paid' = Add(total_interest_paid, interest)
           /\ total_principal_paid' = Add(total_principal_paid, principal_paid)
           /\ schedule_rows' = Append(schedule_rows,
                  [Month |-> m,
                   Payment |-> rowPayment(newBal, monthly_payment_with_extra,
                                          principal_paid, interest),
                   Principal |-> principal_paid,
                   Interest |-> interest,
                   Balance |-> rowBalance(newBal)])
           /\ IF paidOff(newBal) \/ m = total_months
              THEN m' = m /\ pc' = "frame"
              ELSE m' = m + 1 /\ pc' = "loop"
    /\ UNCHANGED <<inputs, terms, amort_df, display_df, outputs, error_shown>>

\* lines 150-152
Frame ==
    /\ pc = "frame"
    /\ amort_df' = amortFrame(schedule_rows)
    /\ pc' = "display"
    /\ UNCHANGED <<inputs, terms, loopState, display_df, outputs, error_shown>>

\* lines 159-163
Display ==
    /\ pc = "display"
    /\ display_df' = displayFrame(amort_df, rounding)
    /\ pc' = "metrics"
    /\ UNCHANGED <<inputs, terms, loopState, amort_df, outputs, error_shown>>

\* lines 166-175: the five st.metric values, the amounts formatted ",.2f"
Metrics ==
    /\ pc = "metrics"
    /\ metrics' = <<Round2(base_monthly_payment),
                    Round2(monthly_payment_with_extra),
                    Round2(total_interest_paid),
                    Round2(total_principal_paid),
                    FromInt(Len(amort_df))>>
    /\ pc' = "csv"
    /\ UNCHANGED <<inputs, terms, loopState, amort_df, display_df, csv, table,
                   charts, quotes, error_shown>>

\* lines 178-180
Csv ==
    /\ pc = "csv"
    /\ csv' = IF download_csv /\ amort_df # <<>>
              THEN toCsv(csvSource(amort_df, display_df)) ELSE csv
    /\ pc' = "table"
    /\ UNCHANGED <<inputs, terms, loopState, amort_df, display_df, metrics,
                   table, charts, quotes, error_shown>>

\* lines 183-186
Table ==
    /\ pc = "table"
    /\ table' = IF show_amort THEN display_df ELSE table
    /\ pc' = "charts"
    /\ UNCHANGED <<inputs, terms, loopState, amort_df, display_df, metrics,
                   csv, charts, quotes, error_shown>>

\* lines 189-219: the balance line, the stacked components, the pie totals
Charts ==
    /\ pc = "charts"
    /\ charts' = IF show_graphs
                 THEN <<[i \in 1..Len(amort_df) |-> amort_df[i].Balance],
                        [i \in 1..Len(amort_df) |->
                            <<amort_df[i].Principal, amort_df[i].Interest>>],
                        <<<<CumSum(amort_df, "Principal", Len(amort_df)),
                            CumSum(amort_df, "Interest", Len(amort_df))>>>>>>
                 ELSE charts
    /\ pc' = "sensitivity"
    /\ UNCHANGED <<inputs, terms, loopState, amort_df, display_df, metrics,
                   csv, table, quotes, error_shown>>

\* lines 222-229: the three quotes
Sensitivity ==
    /\ pc = "sensitivity"
    /\ quotes' =
           [i \in 1..3 |->
               LET r == sensitivityRates(interest_rate)[i]
                   pay == monthly_payment(effective_principal,
                              sensitivityRate(r, compounding), total_months)
               IN  [rate |-> r, pay |-> pay, shown |-> Round2(pay)]]
    /\ pc' = "done"
    /\ UNCHANGED <<inputs, terms, loopState, amort_df, display_df, metrics,
                   csv, table, charts, error_shown>>

Next ==
    \/ Validate
    \/ Convert
    \/ Payment
    \/ LoopStep
    \/ Frame
    \/ Display
    \/ Metrics
    \/ Csv
    \/ Table
    \/ Charts
    \/ Sensitivity

Spec == Init /\ [][Next]_vars

\* ------------------------------------------------ the schedule loop alone

LoopPrincipals == {Dec(5, 100000), FromInt(1), FromInt(1000)}

LoopRates == {Zero, Dec(1, 100), Dec(1, 2)}

LoopPayments ==
    {Zero, Dec(1, 2), FromInt(5), FromInt(400), FromInt(1600)}

\* lines 127-129 entered with any effective principal > 0, periodic rate
\* >= 0, number of periods >= 1 and payment >= 0
InitLoop ==
    /\ effective_principal \in LoopPrincipals
    /\ monthly_rate \in LoopRates
    /\ total_months \in 1..MaxPeriods
    /\ monthly_payment_with_extra \in LoopPayments
    /\ principal = effective_principal
    /\ deposit = Zero
    /\ interest_rate = Unset
    /\ compounding = "Monthly"
    /\ duration_years = 0
    /\ extra_payment = Unset
    /\ base_monthly_payment = Unset
    /\ show_amort = FALSE
    /\ show_graphs = FALSE
    /\ download_csv = FALSE
    /\ rounding = FALSE
    /\ error_shown = FALSE
    /\ schedule_rows = <<>>
    /\ balance = effective_principal
    /\ total_interest_paid = Zero
    /\ total_principal_paid = Zero
    /\ m = 1
    /\ amort_df = <<>>
    /\ display_df = <<>>
    /\ metrics = <<>>
    /\ csv = <<>>
    /\ table = <<>>
    /\ charts = <<>>
    /\ quotes = <<>>
    /\ pc = "loop"

NextLoop ==
    \/ LoopStep
    \/ Frame

LoopSpec == InitLoop /\ [][NextLoop]_vars

\* ------------------------------------------------------------ properties

\* the for loop has been left (range exhausted, or break)
LoopEnded ==
    pc \in {"frame", "display", "metrics", "csv", "table", "charts",
            "sensitivity", "done"}

\* lines 150-152 have run
FrameBuilt ==
    pc \in {"display", "metrics", "csv", "table", "charts", "sensitivity",
            "done"}

NRows == Len(schedule_rows)

LastRow == schedule_rows[NRows]

\* the balance the period of row i started from
BalanceBefore(i) ==
    IF i = 1 THEN effective_principal ELSE schedule_rows[i - 1].Balance

\* the payment that amortizes the loop's principal over its periods
RequiredPayment ==
    monthly_payment(effective_principal, monthly_rate, total_months)

Abs(x) == IF x.neg THEN Neg(x) ELSE x

WithinEpsilon(x, y) == Le(Abs(Sub(x, y)), Epsilon)

C3_Length ==
    /\ NRows <= total_months
    /\ LoopEnded => NRows >= 1
    /\ \A i \in 1..NRows : schedule_rows[i].Month = i
    /\ \A i \in 1..(NRows - 1) : Lt(Epsilon, schedule_rows[i].Balance)
    /\ pc = "loop" =>
           /\ m = NRows + 1
           /\ NRows >= 1 => Lt(Epsilon, balance)

\* C3's case: the loop broke before period n, after two rows or more
C3_Witness ==
    /\ LoopEnded
    /\ NRows >= 2
    /\ NRows < total_months
    /\ Le(LastRow.Balance, Epsilon)

\* C4: with effective principal = max(0, principal - deposit) <= 0 the run
\* shows the error and stops before any rate, row, metric, CSV, table, chart
\* or quote exists; with effective principal > 0 no error is shown.
C4_InvalidInputStops ==
    /\ effective_principal =
           (IF Lt(deposit, principal) THEN Sub(principal, deposit) ELSE Zero)
    /\ Le(effective_principal, Zero) =>
           /\ pc \in {"validate", "stopped"}
           /\ pc = "stopped" <=> error_shown
           /\ monthly_rate = Unset
           /\ base_monthly_payment = Unset
           /\ schedule_rows = <<>>
           /\ amort_df = <<>>
           /\ metrics = <<>>
           /\ csv = <<>>
           /\ table = <<>>
           /\ charts = <<>>
           /\ quotes = <<>>
    /\ Lt(Zero, effective_principal) =>
           /\ ~error_shown
           /\ pc # "stopped"

\* C4's case: the deposit exceeds the principal and the run has stopped
C4_Witness ==
    /\ pc = "stopped"
    /\ error_shown
    /\ Lt(principal, deposit)

C6_Conservation ==
    /\ (pc = "loop" \/ LoopEnded) =>
           Add(balance, total_principal_paid) = effective_principal
    /\ FrameBuilt =>
           /\ Len(amort_df) = NRows
           /\ \A i \in 1..NRows :
                  Add(amort_df[i].Balance, amort_df[i].CumPrincipal)
                      = effective_principal
           /\ Le(LastRow.Balance, Epsilon) =>
                  /\ WithinEpsilon(amort_df[NRows].CumPrincipal,
                                   effective_principal)
                  /\ WithinEpsilon(total_principal_paid, effective_principal)

\* C6's case: a schedule of two rows or more that ended paid off, interest
\* included
C6_Witness ==
    /\ FrameBuilt
    /\ NRows >= 2
    /\ Lt(Zero, monthly_rate)
    /\ Le(LastRow.Balance, Epsilon)
    /\ amort_df[NRows].CumPrincipal = effective_principal

\* C7: a row records the payment Pe when a balance > 0 is left after its
\* period, and otherwise principal part + interest; its balance is
\* max(0, running balance); so only the last row can show a payment other
\* than Pe.
C7_Payment ==
    /\ \A i \in 1..NRows :
           /\ Lt(Zero, schedule_rows[i].Balance) =>
                  schedule_rows[i].Payment = monthly_payment_with_extra
           /\ ~Lt(Zero, schedule_rows[i].Balance) =>
                  schedule_rows[i].Payment =
                      Add(schedule_rows[i].Principal, schedule_rows[i].Interest)
           /\ i < NRows =>
                  schedule_rows[i].Payment = monthly_payment_with_extra
    /\ NRows >= 1 =>
           LastRow.Balance = (IF Lt(Zero, balance) THEN balance ELSE Zero)

\* C7's case: a truncated final period after at least one full payment
C7_Witness ==
    /\ LoopEnded
    /\ NRows >= 2
    /\ LastRow.Balance = Zero
    /\ Lt(LastRow.Payment, monthly_payment_with_extra)
    /\ Lt(Zero, LastRow.Interest)

\* C8: at rate 0 the payment is principal / n, every row has interest 0 and
\* principal part min(balance, Pe); principal 1200 over 12 months with
\* Pe = 100 gives exactly 12 rows of principal 100, interest 0, ending at 0.
C8_ZeroRate ==
    monthly_rate = Zero =>
        /\ pc \notin {"convert", "payment"} =>
               base_monthly_payment =
                   Div(effective_principal, FromInt(total_months))
        /\ \A i \in 1..NRows :
               /\ schedule_rows[i].Interest = Zero
               /\ schedule_rows[i].Principal =
                      (IF Lt(monthly_payment_with_extra, BalanceBefore(i))
                       THEN monthly_payment_with_extra ELSE BalanceBefore(i))
        /\ (LoopEnded /\ effective_principal = FromInt(1200)
               /\ total_months = 12
               /\ monthly_payment_with_extra = FromInt(100)) =>
               /\ NRows = 12
               /\ \A i \in 1..NRows :
                      schedule_rows[i].Principal = FromInt(100)
               /\ LastRow.Balance = Zero

\* C8's case: the 1200 / 12 / 100 example has run to its twelfth row
C8_Witness ==
    /\ pc = "done"
    /\ monthly_rate = Zero
    /\ effective_principal = FromInt(1200)
    /\ monthly_payment_with_extra = FromInt(100)
    /\ NRows = 12

\* C9: rounding touches the display frame only: the computed frame stays the
\* full-precision frame of the rows, the totals are the full-precision sums,
\* the CSV is written from the computed frame and the metrics from the
\* totals, with rounding on as with rounding off.
C9_RoundingIsDisplayOnly ==
    /\ FrameBuilt =>
           /\ Len(amort_df) = NRows
           /\ \A i \in 1..NRows :
                  /\ amort_df[i].Payment = schedule_rows[i].Payment
                  /\ amort_df[i].Principal = schedule_rows[i].Principal
                  /\ amort_df[i].Interest = schedule_rows[i].Interest
                  /\ amort_df[i].Balance = schedule_rows[i].Balance
                  /\ amort_df[i].CumInterest =
                         Add(IF i = 1 THEN Zero ELSE amort_df[i - 1].CumInterest,
                             schedule_rows[i].Interest)
                  /\ amort_df[i].CumPrincipal =
                         Add(IF i = 1 THEN Zero
                             ELSE amort_df[i - 1].CumPrincipal,
                             schedule_rows[i].Principal)
           /\ total_interest_paid = amort_df[NRows].CumInterest
           /\ total_principal_paid = amort_df[NRows].CumPrincipal
    /\ pc \in {"metrics", "csv", "table", "charts", "sensitivity", "done"} =>
           /\ Len(display_df) = NRows
           /\ ~rounding => display_df = amort_df
    /\ pc \in {"table", "charts", "sensitivity", "done"} /\ download_csv =>
           /\ Len(csv) = NRows
           /\ \A i \in 1..NRows :
                  csv[i] = <<i, schedule_rows[i].Payment,
                             schedule_rows[i].Principal,
                             schedule_rows[i].Interest,
                             schedule_rows[i].Balance,
                             amort_df[i].CumInterest,
                             amort_df[i].CumPrincipal>>
    /\ pc \in {"csv", "table", "charts", "sensitivity", "done"} =>
           /\ metrics[3] = Round2(total_interest_paid)
           /\ metrics[4] = Round2(total_principal_paid)

\* C9's case: rounding is on, it changed what is displayed, and the CSV and
\* the table have both been produced
C9_Witness ==
    /\ pc = "done"
    /\ rounding
    /\ download_csv
    /\ show_amort
    /\ table = display_df
    /\ display_df # amort_df
    /\ csv # <<>>

\* C10 as stated: three quotes, for max(0, rate - 2), rate and rate + 2, each
\* the payment formula on the same principal and periods at the rate the
\* base payment's conversion gives under the selected compounding; so the
\* middle quote is the base payment.
C10_QuotesUseBaseConversion ==
    pc = "done" =>
        /\ Len(quotes) = 3
        /\ \A i \in 1..3 :
               /\ quotes[i].rate = sensitivityRates(interest_rate)[i]
               /\ quotes[i].pay =
                      monthly_payment(effective_principal,
                          monthlyRate(quotes[i].rate, compounding),
                          total_months)
        /\ quotes[2].pay = base_monthly_payment
=============================================================================
